---- MODULE Spec2Model ----
(***************************************************************************)
(* Order book and matcher of golang_match_order.                           *)
(*                                                                         *)
(* The book operations are those of package main (src/main/order.go,       *)
(* src/main/match.go): AddOrder, CancelOrder, MatchOrder with              *)
(* traversePriceLevel and processCompletedOrders.  The body of the Trade   *)
(* literal, which src/main/match.go:88 elides ("logic unchanged"), is the  *)
(* one of src/model/match.go:69-80.                                        *)
(*                                                                         *)
(* An order object is identified by its position in `orders` (the Go       *)
(* pointer); a price level object by its position in `levels`.             *)
(*                                                                         *)
(* Prices and quantities are *big.Float values made by big.NewFloat, which *)
(* gives them a mantissa of 53 bits; Add and Sub round their result to the *)
(* receiver's mantissa, to nearest even.  The model counts quantities in   *)
(* whole units and keeps a mantissa of Prec bits.  Prices are only         *)
(* compared and formatted, never computed.                                 *)
(***************************************************************************)
EXTENDS Integers, Sequences, FiniteSets, TLC

\* Bounds of the model.
MaxOrders == 3      \* order objects submitted over a run
MaxPrice == 2       \* limit prices are 1..MaxPrice
MaxQty == 4         \* quantities are the representable values of 1..MaxQty
Prec == 1           \* mantissa bits of a quantity (53 in the program)
MaxIds == 4         \* order ids are 1..MaxIds
MaxSubmits == 2     \* order objects of a run whose callers reuse ids
MaxCancels == 1     \* CancelOrder calls of the cancelling goroutine
ChanCap == 1        \* capacity of OrderChan and of TradeChan (10000 in the program)

\* src/main/model.go:13-24
SideBuy == "buy"
SideSell == "sell"
StatusPending == "pending"
StatusPartiallyFilled == "partially_filled"
StatusFilled == "filled"
StatusCancelled == "cancelled"

\* nil pointers / absent map entries
NoLevel == 0
NoOrder == 0

\* A market order carries price 0 (src/main/model.go:38,210).
MarketPrice == 0

OrderIds == 1..MaxIds
Prices == MarketPrice..MaxPrice

\* big.Float.String() of a price: the key of OrderBook.PriceLevels.
PriceString(p) == ToString(p)

PriceStrings == {PriceString(p) : p \in Prices}

VARIABLES
    orders,       \* the Order objects created by the callers, by object index
    levels,       \* the PriceLevel objects ever allocated, by object index
    PriceLevels,  \* OrderBook.PriceLevels: price string -> level object
    OrderMap,     \* OrderBook.OrderMap: order id -> order object
    Bids,         \* OrderBook.Bids: btree of PriceLevelItem, keyed by Price
    Asks,         \* OrderBook.Asks
    trades,       \* the []*Trade returned by the last MatchOrder
    audit,        \* observation of each trade of `trades` at its emission
    prevOrders,   \* the order objects as they were when the last call began
    last,         \* the last call: operation, argument and returned error
    prevBook,     \* the maps, indices and levels as they were when it began
    traded,       \* per order object, the quantity of all the trades it took part in
    sched,        \* the locks held and the position of each call that runs in steps
    engine        \* the MatchingEngine: channels, goroutines, what passed through

vars == <<orders, levels, PriceLevels, OrderMap, Bids, Asks, trades, audit,
          prevOrders, last, prevBook, traded, sched, engine>>

Range(s) == {s[i] : i \in 1..Len(s)}

----------------------------------------------------------------------------
\* big.Float arithmetic on quantities.

RECURSIVE BitLen(_)
BitLen(v) == IF v = 0 THEN 0 ELSE 1 + BitLen(v \div 2)

\* A non-negative value rounded to Prec mantissa bits, ties to even.
RoundMagnitude(v) ==
    LET n == BitLen(v)
        ulp == 2 ^ (n - Prec)
        q == v \div ulp
        r == v % ulp
    IN  IF n <= Prec THEN v
        ELSE IF 2 * r < ulp \/ (2 * r = ulp /\ q % 2 = 0) THEN q * ulp
        ELSE (q + 1) * ulp

Round(v) == IF v < 0 THEN 0 - RoundMagnitude(0 - v) ELSE RoundMagnitude(v)

\* z.Add(x, y) and z.Sub(x, y)
FloatAdd(x, y) == Round(x + y)

FloatSub(x, y) == Round(x - y)

\* The quantities a caller can pass: big.NewFloat of a value.
Quantities == {q \in 1..MaxQty : Round(q) = q}

----------------------------------------------------------------------------
\* btree.BTree with PriceLevelItem.Less (src/main/model.go:71-75): one item
\* per price, ordered by ascending price on both trees.

EmptyTree == [p \in Prices |-> NoLevel]

TreeReplaceOrInsert(tree, price, lid) == [tree EXCEPT ![price] = lid]

TreeDelete(tree, price) == [tree EXCEPT ![price] = NoLevel]

\* The items of the tree in ascending order of Less, as prices.
TreeItems(tree) ==
    LET S == {p \in Prices : tree[p] # NoLevel}
    IN  CHOOSE s \in [1..Cardinality(S) -> S] :
            \A i, j \in 1..Cardinality(S) : i < j => s[i] < s[j]

----------------------------------------------------------------------------
\* The book as a record, threaded through the operations.  `remaining`,
\* `trades`, `matchCompleted` are the locals of MatchOrder, `cont` the return
\* value of traversePriceLevel, `err` the returned error.

NoError == "nil"

NewOrderBook ==
    [orders |-> <<>>, levels |-> <<>>,
     PriceLevels |-> [s \in PriceStrings |-> NoLevel],
     OrderMap |-> [i \in OrderIds |-> NoOrder],
     Bids |-> EmptyTree, Asks |-> EmptyTree,
     remaining |-> 0, trades |-> <<>>, audit |-> <<>>,
     matchCompleted |-> FALSE, cont |-> TRUE, err |-> NoError]

NewPriceLevel(price) ==
    [Price |-> price, TotalQty |-> 0, Orders |-> <<>>,
     OrderMap |-> [i \in OrderIds |-> NoOrder]]

\* list.Remove(elem) for the element holding order object o
ListRemove(fifo, o) == SelectSeq(fifo, LAMBDA x : x # o)

\* The quantity AddOrder adds to the level aggregate.
AddedQty(order) == order.Remaining

\* OrderBook.AddOrder(order), o the order object
AddOrder(b, o) ==
    LET order == b.orders[o]
        priceStr == PriceString(order.Price)
        exists == b.PriceLevels[priceStr] # NoLevel
        lid == IF exists THEN b.PriceLevels[priceStr] ELSE Len(b.levels) + 1
        b1 == IF exists THEN b
              ELSE [b EXCEPT
                      !.levels = Append(@, NewPriceLevel(order.Price)),
                      !.PriceLevels[priceStr] = lid,
                      !.Bids = IF order.Side = SideBuy
                               THEN TreeReplaceOrInsert(@, order.Price, lid)
                               ELSE @,
                      !.Asks = IF order.Side = SideBuy
                               THEN @
                               ELSE TreeReplaceOrInsert(@, order.Price, lid)]
    IN  IF b.OrderMap[order.OrderID] # NoOrder
        THEN [b EXCEPT !.err = "order exists"]
        ELSE [b1 EXCEPT
                !.levels[lid].TotalQty = FloatAdd(@, AddedQty(order)),
                !.levels[lid].Orders = Append(@, o),
                !.levels[lid].OrderMap[order.OrderID] = o,
                !.OrderMap[order.OrderID] = o,
                !.err = NoError]

\* The quantity CancelOrder takes off the level aggregate.
CancelledQty(order) == order.Remaining

\* Variant: a cancelled order is given the status pending.
CancelOrder_Reopens(b, orderID) ==
    LET o == b.OrderMap[orderID]
        order == b.orders[o]
        priceStr == PriceString(order.Price)
        lid == b.PriceLevels[priceStr]
        level == b.levels[lid]
        elem == level.OrderMap[orderID]
        fifo == ListRemove(level.Orders, elem)
        b1 == [b EXCEPT
                 !.levels[lid].Orders = fifo,
                 !.levels[lid].OrderMap[orderID] = NoOrder,
                 !.levels[lid].TotalQty = FloatSub(@, CancelledQty(order))]
        b2 == IF fifo = <<>>
              THEN [b1 EXCEPT
                      !.PriceLevels[priceStr] = NoLevel,
                      !.Bids = IF order.Side = SideBuy
                               THEN TreeDelete(@, order.Price) ELSE @,
                      !.Asks = IF order.Side = SideBuy
                               THEN @ ELSE TreeDelete(@, order.Price)]
              ELSE b1
    IN  IF o = NoOrder
        THEN [b EXCEPT !.err = "order not found"]
        ELSE IF order.Status # StatusPending
                /\ order.Status # StatusPartiallyFilled
        THEN [b EXCEPT !.err = "order cannot be cancelled"]
        ELSE IF lid = NoLevel
        THEN [b EXCEPT !.err = "price level not found"]
        ELSE IF elem = NoOrder
        THEN [b EXCEPT !.err = "order not found in price level"]
        ELSE [b2 EXCEPT
                !.orders[o].Status = StatusPending,
                !.OrderMap[orderID] = NoOrder,
                !.err = NoError]

\* OrderBook.CancelOrder(orderID)
CancelOrder(b, orderID) ==
    LET o == b.OrderMap[orderID]
        order == b.orders[o]
        priceStr == PriceString(order.Price)
        lid == b.PriceLevels[priceStr]
        level == b.levels[lid]
        elem == level.OrderMap[orderID]
        fifo == ListRemove(level.Orders, elem)
        b1 == [b EXCEPT
                 !.levels[lid].Orders = fifo,
                 !.levels[lid].OrderMap[orderID] = NoOrder,
                 !.levels[lid].TotalQty = FloatSub(@, CancelledQty(order))]
        b2 == IF fifo = <<>>
              THEN [b1 EXCEPT
                      !.PriceLevels[priceStr] = NoLevel,
                      !.Bids = IF order.Side = SideBuy
                               THEN TreeDelete(@, order.Price) ELSE @,
                      !.Asks = IF order.Side = SideBuy
                               THEN @ ELSE TreeDelete(@, order.Price)]
              ELSE b1
    IN  IF o = NoOrder
        THEN [b EXCEPT !.err = "order not found"]
        ELSE IF order.Status # StatusPending
                /\ order.Status # StatusPartiallyFilled
        THEN [b EXCEPT !.err = "order cannot be cancelled"]
        ELSE IF lid = NoLevel
        THEN [b EXCEPT !.err = "price level not found"]
        ELSE IF elem = NoOrder
        THEN [b EXCEPT !.err = "order not found in price level"]
        ELSE [b2 EXCEPT
                !.orders[o].Status = StatusCancelled,
                !.OrderMap[orderID] = NoOrder,
                !.err = NoError]

----------------------------------------------------------------------------
\* The matcher.

\* isMatch of MatchOrder: price acceptance of an opposite level.
IsMatch(newOrder, oppositePrice) ==
    IF newOrder.Side = SideBuy
    THEN newOrder.IsMarket \/ newOrder.Price >= oppositePrice
    ELSE newOrder.IsMarket \/ newOrder.Price <= oppositePrice

\* The test of the FIFO walk that passes over a resting order.
SkipsResting(restingOrder) == restingOrder.Status # StatusPending

\* Variant: the comparison of matchQty inverted.
MatchQty_Larger(remaining, restingRemaining) ==
    IF remaining > restingRemaining THEN remaining ELSE restingRemaining

\* matchQty of the FIFO walk.
MatchQty(remaining, restingRemaining) ==
    IF remaining > restingRemaining THEN restingRemaining ELSE remaining

\* Status of the resting order after a trade.
RestingStatus(restingRemaining) ==
    IF restingRemaining = 0 THEN StatusFilled ELSE StatusPartiallyFilled

\* The update of the resting order by a trade of matchQty.
FillResting(restingOrder, matchQty) ==
    [restingOrder EXCEPT
        !.Remaining = FloatSub(@, matchQty),
        !.Status = RestingStatus(FloatSub(restingOrder.Remaining, matchQty))]

\* Variant: the trade is priced at the taker's limit.
NewTrade_TakerPrice(newOrder, restingOrder, priceLevel, matchQty) ==
    [Price |-> newOrder.Price,
     Quantity |-> matchQty,
     MakerOrderID |-> restingOrder.OrderID,
     TakerOrderID |-> newOrder.OrderID]

\* The Trade literal.
NewTrade(newOrder, restingOrder, priceLevel, matchQty) ==
    [Price |-> priceLevel.Price,
     Quantity |-> matchQty,
     MakerOrderID |-> restingOrder.OrderID,
     TakerOrderID |-> newOrder.OrderID]

\* A resting order the matcher is meant to trade with.
Matchable(order) ==
    /\ order.Status \in {StatusPending, StatusPartiallyFilled}
    /\ order.Remaining > 0

\* The opposite side index of an incoming order.
OppositeTree(b, newOrder) == IF newOrder.Side = SideBuy THEN b.Asks ELSE b.Bids

\* Observation at the emission of a trade against fifo[i] of level lid: the
\* two orders and their remaining quantities before the trade, the levels
\* whose FIFO holds the maker, and what the matcher left behind (an earlier
\* live order of the same FIFO with quantity left; a strictly better opposite
\* level with a matchable order).
Observe(b, new, lid, i) ==
    LET newOrder == b.orders[new]
        level == b.levels[lid]
        fifo == level.Orders
        tree == OppositeTree(b, newOrder)
        better(p) == IF newOrder.Side = SideBuy
                     THEN p < level.Price ELSE p > level.Price
    IN  [maker |-> fifo[i], taker |-> new,
         makerBefore |-> b.orders[fifo[i]].Remaining,
         takerBefore |-> b.remaining,
         makerSide |-> b.orders[fifo[i]].Side,
         takerSide |-> newOrder.Side,
         takerPrice |-> newOrder.Price,
         takerIsMarket |-> newOrder.IsMarket,
         restsIn |-> {l \in 1..Len(b.levels) : fifo[i] \in Range(b.levels[l].Orders)},
         passedOver |->
            \E j \in 1..(i - 1) :
                /\ b.OrderMap[b.orders[fifo[j]].OrderID] = fifo[j]
                /\ b.orders[fifo[j]].Remaining > 0,
         betterLeft |->
            \E p \in Prices :
                /\ tree[p] # NoLevel
                /\ better(p)
                /\ \E o \in Range(b.levels[tree[p]].Orders) :
                       Matchable(b.orders[o])]

\* OrderBook.processCompletedOrders(priceLevel)
processCompletedOrders(b, lid) ==
    LET level == b.levels[lid]
        fifo == level.Orders
        restingOrder == IF fifo = <<>> THEN NoOrder ELSE fifo[Len(fifo)]
        completed(o) == b.orders[o].Status \in {StatusFilled, StatusCancelled}
        kept == SelectSeq(fifo, LAMBDA o : ~completed(o))
        gone == {o \in Range(fifo) : completed(o)}
        goneIds == {b.orders[o].OrderID : o \in gone}
        b1 == [b EXCEPT
                 !.levels[lid].Orders = kept,
                 !.levels[lid].OrderMap =
                     [id \in OrderIds |-> IF id \in goneIds THEN NoOrder ELSE @[id]],
                 !.OrderMap =
                     [id \in OrderIds |-> IF id \in goneIds THEN NoOrder ELSE @[id]]]
        useBids == restingOrder # NoOrder
                   /\ b.orders[restingOrder].Side = SideBuy
    IN  IF kept = <<>>
        THEN [b1 EXCEPT
                !.PriceLevels[PriceString(level.Price)] = NoLevel,
                !.Bids = IF useBids THEN TreeDelete(@, level.Price) ELSE @,
                !.Asks = IF useBids THEN @ ELSE TreeDelete(@, level.Price)]
        ELSE b1

\* The FIFO walk of traversePriceLevel from list position i on.
RECURSIVE WalkLevel(_, _, _, _)
WalkLevel(b, new, lid, i) ==
    LET level == b.levels[lid]
        fifo == level.Orders
        r == fifo[i]
        restingOrder == b.orders[r]
        newOrder == b.orders[new]
        matchQty == MatchQty(b.remaining, restingOrder.Remaining)
        trade == NewTrade(newOrder, restingOrder, level, matchQty)
        b1 == [b EXCEPT
                 !.trades = Append(@, trade),
                 !.audit = Append(@, Observe(b, new, lid, i)),
                 !.remaining = FloatSub(@, matchQty),
                 !.orders[r] = FillResting(restingOrder, matchQty),
                 !.levels[lid].TotalQty = FloatSub(@, matchQty)]
    IN  IF i > Len(fifo)
        THEN [processCompletedOrders(b, lid) EXCEPT !.cont = TRUE]
        ELSE IF SkipsResting(restingOrder)
        THEN WalkLevel(b, new, lid, i + 1)
        ELSE IF b1.remaining = 0
        THEN [processCompletedOrders(
                 [b1 EXCEPT !.orders[new].Status = StatusFilled,
                            !.orders[new].Remaining = b1.remaining], lid)
                 EXCEPT !.matchCompleted = TRUE, !.cont = FALSE]
        ELSE WalkLevel(b1, new, lid, i + 1)

\* OrderBook.traversePriceLevel(item, newOrder, ...): the callback of the
\* iteration; .cont is its return value.
traversePriceLevel(b, new, lid) ==
    IF ~IsMatch(b.orders[new], b.levels[lid].Price)
    THEN [b EXCEPT !.cont = FALSE]
    ELSE WalkLevel(b, new, lid, 1)

\* btree Ascend over ob.Asks: the loop `for i := 0; i < len(n.items); i++`
\* of the tree's node over its item slice, which the callback's tree.Delete
\* shortens while the loop runs (positions here are 1-based).
RECURSIVE Ascend(_, _, _)
Ascend(b, new, i) ==
    LET items == TreeItems(b.Asks)
        b1 == traversePriceLevel(b, new, b.Asks[items[i]])
    IN  IF i > Len(items) THEN b
        ELSE IF b1.cont THEN Ascend(b1, new, i + 1)
        ELSE b1

\* btree Descend over ob.Bids: the loop `for i := len(n.items)-1; i >= 0; i--`.
RECURSIVE Descend(_, _, _)
Descend(b, new, i) ==
    LET items == TreeItems(b.Bids)
        b1 == traversePriceLevel(b, new, b.Bids[items[i]])
    IN  IF i < 1 THEN b
        ELSE IF b1.cont THEN Descend(b1, new, i - 1)
        ELSE b1

\* Status given to an incoming order that is left with a residual.
ResidualStatus(emitted) == StatusPartiallyFilled

\* Whether MatchOrder hands the incoming order to AddOrder.
InsertsResidual(b, newOrder) == ~b.matchCompleted /\ b.remaining > 0

\* OrderBook.MatchOrder(newOrder), new the order object
MatchOrder(b, new) ==
    LET newOrder == b.orders[new]
        b0 == [b EXCEPT !.trades = <<>>, !.audit = <<>>,
                        !.remaining = newOrder.Remaining,
                        !.matchCompleted = FALSE, !.err = NoError]
        b1 == IF newOrder.Side = SideBuy
              THEN Ascend(b0, new, 1)
              ELSE Descend(b0, new, Len(TreeItems(b0.Bids)))
    IN  IF InsertsResidual(b1, newOrder)
        THEN [AddOrder([b1 EXCEPT
                          !.orders[new].Remaining = b1.remaining,
                          !.orders[new].Status = ResidualStatus(b1.trades)], new)
                EXCEPT !.err = NoError]
        ELSE b1

----------------------------------------------------------------------------
\* The callers: order objects are created with a fresh id, Remaining =
\* Quantity > 0 and status pending (src/main/model.go:122-133,205-216).

NewOrder(id, side, price, qty, isMarket) ==
    [OrderID |-> id, Side |-> side,
     Price |-> IF isMarket THEN MarketPrice ELSE price,
     Quantity |-> qty, Remaining |-> qty,
     Status |-> StatusPending, IsMarket |-> isMarket]

\* The goroutines that call the book in steps.
Threads == {"T1", "T2"}

\* sync.RWMutex objects: OrderBook.mutex and PriceLevel.mutex.
NoLock == [kind |-> "none", id |-> 0]

BookLock == [kind |-> "book", id |-> 0]

LevelLock(lid) == [kind |-> "level", id |-> lid]

\* A goroutine that is in no call.  pc is the position in the code, wants
\* the lock it is blocked on, the rest are the locals of the call.
Idle ==
    [pc |-> "idle", op |-> "none", arg |-> 0, wants |-> NoLock, mode |-> "none",
     remaining |-> 0, trades |-> <<>>, audit |-> <<>>, pos |-> 0, lid |-> NoLevel,
     k |-> 0, full |-> FALSE, completed |-> {}, lastSeen |-> NoOrder,
     matchCompleted |-> FALSE, err |-> NoError]

\* No call is running in steps and no lock is held.  mark and cancels are
\* bookkeeping of the two-goroutine runs: how the running calls began, and
\* how many CancelOrder calls were made.
NoCalls ==
    [held |-> {}, calls |-> [t \in Threads |-> Idle], mark |-> "quiet",
     cancels |-> 0]

\* NewMatchingEngine(): empty channels, StopChan open, no goroutine started.
\* orderProcessor and tradeProcessor are the positions of the two worker
\* goroutines, batch the trades the order processor is about to send; Stop,
\* waiter, done and diagnostic belong to MatchingEngine.Stop.  taken,
\* computed and consumed record what went through the channels, stoppedAt
\* the number of order objects made when Stop was called.
NewMatchingEngine ==
    [started |-> FALSE, OrderChan |-> <<>>, TradeChan |-> <<>>,
     StopChan |-> "open", Wg |-> 0,
     orderProcessor |-> "off", tradeProcessor |-> "off", batch |-> <<>>,
     Stop |-> "off", waiter |-> "off", done |-> "open", diagnostic |-> "none",
     taken |-> <<>>, computed |-> <<>>, consumed |-> <<>>, stoppedAt |-> 0]

Book ==
    [NewOrderBook EXCEPT
        !.orders = orders, !.levels = levels, !.PriceLevels = PriceLevels,
        !.OrderMap = OrderMap, !.Bids = Bids, !.Asks = Asks]

\* What a caller can see of the book: the maps, the indices, the levels.
Snapshot(b) ==
    [levels |-> b.levels, PriceLevels |-> b.PriceLevels,
     OrderMap |-> b.OrderMap, Bids |-> b.Bids, Asks |-> b.Asks]

\* The quantity of the trades of a call in which order object o is the
\* maker or the taker.
RECURSIVE TradedIn(_, _, _)
TradedIn(b, o, i) ==
    IF i = 0 THEN 0
    ELSE TradedIn(b, o, i - 1)
         + IF o \in {b.audit[i].maker, b.audit[i].taker}
           THEN b.trades[i].Quantity ELSE 0

Install(b, op, arg, before) ==
    /\ orders' = b.orders
    /\ levels' = b.levels
    /\ PriceLevels' = b.PriceLevels
    /\ OrderMap' = b.OrderMap
    /\ Bids' = b.Bids
    /\ Asks' = b.Asks
    /\ trades' = b.trades
    /\ audit' = b.audit
    /\ prevOrders' = before
    /\ last' = [op |-> op, arg |-> arg, err |-> b.err]
    /\ prevBook' = Snapshot(Book)
    /\ traded' = [o \in OrderIds |-> traded[o] + TradedIn(b, o, Len(b.trades))]

\* A call that runs as a whole on a book that no goroutine is working on.
Returns(b, op, arg, before) ==
    /\ Install(b, op, arg, before)
    /\ UNCHANGED <<sched, engine>>

Init ==
    /\ orders = <<>>
    /\ levels = <<>>
    /\ PriceLevels = NewOrderBook.PriceLevels
    /\ OrderMap = NewOrderBook.OrderMap
    /\ Bids = EmptyTree
    /\ Asks = EmptyTree
    /\ trades = <<>>
    /\ audit = <<>>
    /\ prevOrders = <<>>
    /\ last = [op |-> "NewOrderBook", arg |-> 0, err |-> NoError]
    /\ prevBook = Snapshot(NewOrderBook)
    /\ traded = [o \in OrderIds |-> 0]
    /\ sched = NoCalls
    /\ engine = NewMatchingEngine

DoMatchOrder ==
    /\ Len(orders) < MaxOrders
    /\ \E side \in {SideBuy, SideSell}, price \in 1..MaxPrice,
          qty \in Quantities, isMarket \in BOOLEAN :
          LET new == Len(orders) + 1
              b == [Book EXCEPT !.orders =
                       Append(@, NewOrder(new, side, price, qty, isMarket))]
          IN  Returns(MatchOrder(b, new), "MatchOrder", new, b.orders)

DoAddOrder ==
    /\ Len(orders) < MaxOrders
    /\ \E side \in {SideBuy, SideSell}, price \in 1..MaxPrice,
          qty \in Quantities :
          LET new == Len(orders) + 1
              b == [Book EXCEPT !.orders =
                       Append(@, NewOrder(new, side, price, qty, FALSE))]
          IN  Returns(AddOrder(b, new), "AddOrder", new, b.orders)

DoCancelOrder ==
    \E orderID \in 1..MaxOrders :
        Returns(CancelOrder(Book, orderID), "CancelOrder", orderID, orders)

Next == DoMatchOrder \/ DoAddOrder \/ DoCancelOrder

Spec == Init /\ [][Next]_vars

----------------------------------------------------------------------------
\* Locks.  Lock() waits until nobody holds the mutex, the caller's own read
\* lock included; RLock() waits until no writer holds it.

CanLock(s, lock) == \A h \in s.held : h.lock # lock

CanRLock(s, lock) == \A h \in s.held : h.lock = lock => h.mode = "R"

CanAcquire(s, t) ==
    IF s.calls[t].mode = "W" THEN CanLock(s, s.calls[t].wants)
    ELSE CanRLock(s, s.calls[t].wants)

Holds(s, t, lock) == \E h \in s.held : h.t = t /\ h.lock = lock

Acquired(s, t) ==
    [s EXCEPT !.held = @ \cup {[t |-> t, lock |-> s.calls[t].wants,
                                 mode |-> s.calls[t].mode]},
              !.calls[t].wants = NoLock, !.calls[t].mode = "none"]

Released(s, t, lock, mode) ==
    [s EXCEPT !.held = @ \ {[t |-> t, lock |-> lock, mode |-> mode]}]

ReleasedAll(s, t) == [s EXCEPT !.held = {h \in @ : h.t # t}]

\* The call of t asks for a lock and goes on at pc once it has it.
Requests(s, t, lock, mode, pc) ==
    [s EXCEPT !.calls[t].wants = lock, !.calls[t].mode = mode, !.calls[t].pc = pc]

\* One resting order of the FIFO walk: fifo[i] of level lid against order
\* new.  .cont is FALSE when the incoming order is filled.
WalkOne(b, new, lid, i) ==
    LET level == b.levels[lid]
        r == level.Orders[i]
        restingOrder == b.orders[r]
        matchQty == MatchQty(b.remaining, restingOrder.Remaining)
        trade == NewTrade(b.orders[new], restingOrder, level, matchQty)
        b1 == [b EXCEPT
                 !.trades = Append(@, trade),
                 !.audit = Append(@, Observe(b, new, lid, i)),
                 !.remaining = FloatSub(@, matchQty),
                 !.orders[r] = FillResting(restingOrder, matchQty),
                 !.levels[lid].TotalQty = FloatSub(@, matchQty)]
    IN  IF SkipsResting(restingOrder) THEN [b EXCEPT !.cont = TRUE]
        ELSE IF b1.remaining = 0
        THEN [b1 EXCEPT !.orders[new].Status = StatusFilled,
                        !.orders[new].Remaining = b1.remaining,
                        !.cont = FALSE]
        ELSE [b1 EXCEPT !.cont = TRUE]

\* The FIFO walk of a level from position i on, without the reaping.
RECURSIVE WalkFifo(_, _, _, _)
WalkFifo(b, new, lid, i) ==
    IF i > Len(b.levels[lid].Orders) THEN [b EXCEPT !.cont = TRUE]
    ELSE LET b1 == WalkOne(b, new, lid, i)
         IN  IF b1.cont THEN WalkFifo(b1, new, lid, i + 1) ELSE b1

\* AddOrder up to its level.mutex.Lock(): the duplicate test, then the level
\* found or created.  .lid is the level, .err the early return.
AddOrderLevel(b, o) ==
    LET order == b.orders[o]
        priceStr == PriceString(order.Price)
        exists == b.PriceLevels[priceStr] # NoLevel
        lid == IF exists THEN b.PriceLevels[priceStr] ELSE Len(b.levels) + 1
    IN  IF b.OrderMap[order.OrderID] # NoOrder
        THEN [b |-> [b EXCEPT !.err = "order exists"], lid |-> NoLevel]
        ELSE IF exists THEN [b |-> [b EXCEPT !.err = NoError], lid |-> lid]
        ELSE [b |-> [b EXCEPT
                       !.levels = Append(@, NewPriceLevel(order.Price)),
                       !.PriceLevels[priceStr] = lid,
                       !.Bids = IF order.Side = SideBuy
                                THEN TreeReplaceOrInsert(@, order.Price, lid)
                                ELSE @,
                       !.Asks = IF order.Side = SideBuy
                                THEN @
                                ELSE TreeReplaceOrInsert(@, order.Price, lid),
                       !.err = NoError],
              lid |-> lid]

\* AddOrder from its level.mutex.Lock() on: aggregate, FIFO, the two maps.
AddOrderAppend(b, o, lid) ==
    [b EXCEPT
        !.levels[lid].TotalQty = FloatAdd(@, AddedQty(b.orders[o])),
        !.levels[lid].Orders = Append(@, o),
        !.levels[lid].OrderMap[b.orders[o].OrderID] = o,
        !.OrderMap[b.orders[o].OrderID] = o,
        !.err = NoError]

\* The errors CancelOrder returns before its level.mutex.Lock().
CancelEarlyErrors ==
    {"order not found", "order cannot be cancelled", "price level not found"}

\* AddOrder of package main, in its four locked sections
\* (src/main/order.go:26-31, 34-51, 54-58, 61-63).
OrderExists(b, o) == b.OrderMap[b.orders[o].OrderID] # NoOrder

\* .lid is the level found or created for the order's price string.
FindOrCreateLevel(b, o) ==
    LET order == b.orders[o]
        priceStr == PriceString(order.Price)
        exists == b.PriceLevels[priceStr] # NoLevel
        lid == IF exists THEN b.PriceLevels[priceStr] ELSE Len(b.levels) + 1
    IN  IF exists THEN [b |-> b, lid |-> lid]
        ELSE [b |-> [b EXCEPT
                       !.levels = Append(@, NewPriceLevel(order.Price)),
                       !.PriceLevels[priceStr] = lid,
                       !.Bids = IF order.Side = SideBuy
                                THEN TreeReplaceOrInsert(@, order.Price, lid)
                                ELSE @,
                       !.Asks = IF order.Side = SideBuy
                                THEN @
                                ELSE TreeReplaceOrInsert(@, order.Price, lid)],
              lid |-> lid]

AppendToLevel(b, o, lid) ==
    [b EXCEPT
        !.levels[lid].TotalQty = FloatAdd(@, AddedQty(b.orders[o])),
        !.levels[lid].Orders = Append(@, o),
        !.levels[lid].OrderMap[b.orders[o].OrderID] = o]

RegisterOrder(b, o) == [b EXCEPT !.OrderMap[b.orders[o].OrderID] = o]

\* CancelOrder up to its level.mutex.Lock() (src/main/order.go:73-89): the
\* order and the level it goes on with, or the error it returns.
CancelLookup(b, orderID) ==
    LET o == b.OrderMap[orderID]
        order == b.orders[o]
        lid == b.PriceLevels[PriceString(order.Price)]
    IN  IF o = NoOrder
        THEN [err |-> "order not found", o |-> NoOrder, lid |-> NoLevel]
        ELSE IF order.Status # StatusPending
                /\ order.Status # StatusPartiallyFilled
        THEN [err |-> "order cannot be cancelled", o |-> o, lid |-> NoLevel]
        ELSE IF lid = NoLevel
        THEN [err |-> "price level not found", o |-> o, lid |-> NoLevel]
        ELSE [err |-> NoError, o |-> o, lid |-> lid]

\* CancelOrder from its level.mutex.Lock() on (src/main/order.go:92-124),
\* with the order o and the level lid it looked up before.
CancelRemove(b, orderID, o, lid) ==
    LET order == b.orders[o]
        level == b.levels[lid]
        elem == level.OrderMap[orderID]
        fifo == ListRemove(level.Orders, elem)
        b1 == [b EXCEPT
                 !.levels[lid].Orders = fifo,
                 !.levels[lid].OrderMap[orderID] = NoOrder,
                 !.levels[lid].TotalQty = FloatSub(@, CancelledQty(order))]
        b2 == IF fifo = <<>>
              THEN [b1 EXCEPT
                      !.PriceLevels[PriceString(order.Price)] = NoLevel,
                      !.Bids = IF order.Side = SideBuy
                               THEN TreeDelete(@, order.Price) ELSE @,
                      !.Asks = IF order.Side = SideBuy
                               THEN @ ELSE TreeDelete(@, order.Price)]
              ELSE b1
    IN  IF elem = NoOrder
        THEN [b EXCEPT !.err = "order not found in price level"]
        ELSE [b2 EXCEPT
                !.orders[o].Status = StatusCancelled,
                !.OrderMap[orderID] = NoOrder,
                !.err = NoError]

\* processCompletedOrders of package main, in its locked sections
\* (src/main/match.go:128-144, 147-151, 154-168).
Completed(b, o) == b.orders[o].Status \in {StatusFilled, StatusCancelled}

\* Step 1: the completed orders leave the FIFO and the level's id index.
ReapLevel(b, lid) ==
    LET fifo == b.levels[lid].Orders
        goneIds == {b.orders[o].OrderID : o \in {x \in Range(fifo) : Completed(b, x)}}
    IN  [b EXCEPT
           !.levels[lid].Orders = SelectSeq(fifo, LAMBDA o : ~Completed(b, o)),
           !.levels[lid].OrderMap =
               [id \in OrderIds |-> IF id \in goneIds THEN NoOrder ELSE @[id]]]

\* Step 2: their ids leave the id map.
ReapIds(b, ids) ==
    [b EXCEPT !.OrderMap = [id \in OrderIds |-> IF id \in ids THEN NoOrder ELSE @[id]]]

\* Step 3, for an empty FIFO: the price-map entry goes, and the item of the
\* tree chosen by the side of the last order that step 1 saw.
ReapIndex(b, lid, restingOrder) ==
    LET useBids == restingOrder # NoOrder /\ b.orders[restingOrder].Side = SideBuy
        price == b.levels[lid].Price
    IN  [b EXCEPT
           !.PriceLevels[PriceString(price)] = NoLevel,
           !.Bids = IF useBids THEN TreeDelete(@, price) ELSE @,
           !.Asks = IF useBids THEN @ ELSE TreeDelete(@, price)]

\* The book as the call of t sees it: the shared book with the call's locals.
CallBook(s, t) ==
    [Book EXCEPT !.remaining = s.calls[t].remaining,
                 !.trades = s.calls[t].trades,
                 !.audit = s.calls[t].audit]

Keep(s, t, b) ==
    [s EXCEPT !.calls[t].remaining = b.remaining,
              !.calls[t].trades = b.trades,
              !.calls[t].audit = b.audit]

\* The call of t returns err; its deferred unlocks run.
Returned(s, t, err) ==
    ReleasedAll([s EXCEPT !.calls[t] =
                    [Idle EXCEPT !.pc = "returned", !.op = s.calls[t].op,
                                 !.arg = s.calls[t].arg, !.err = err]], t)

Commit(b) ==
    /\ orders' = b.orders
    /\ levels' = b.levels
    /\ PriceLevels' = b.PriceLevels
    /\ OrderMap' = b.OrderMap
    /\ Bids' = b.Bids
    /\ Asks' = b.Asks

Resting(t) == sched.calls[t].pc \in {"idle", "returned"}

----------------------------------------------------------------------------
\* Package model (src/model/order.go, src/model/match.go), one call at a time,
\* in steps from one Lock()/RLock() to the next.  A pc names the line the call
\* goes on at once it has the lock.

NoPrice == 0 - 1

\* `levelItem = oppositeTree.Next(levelItem)`, from oppositeTree.Min(): the
\* least price of the tree above the current one.
ModelNextLevel(b, c) ==
    LET tree == OppositeTree(b, b.orders[c.arg])
        S == {p \in Prices : tree[p] # NoLevel /\ p > c.pos}
    IN  IF S = {} THEN NoPrice ELSE CHOOSE p \in S : \A q \in S : p <= q

ModelSection(b, s, t) ==
    LET c == s.calls[t]
        level == AddOrderLevel(b, c.arg)
        cancel == CancelOrder(b, c.arg)
        p == ModelNextLevel(b, c)
        lid == OppositeTree(b, b.orders[c.arg])[p]
        walk == WalkFifo(b, c.arg, c.lid, 1)
    IN  CASE c.pc = "order.go:29" ->
               IF level.lid = NoLevel
               THEN [b |-> b, s |-> Returned(s, t, IF c.op = "AddOrder"
                                                  THEN level.b.err ELSE NoError)]
               ELSE [b |-> level.b,
                     s |-> Requests([s EXCEPT !.calls[t].lid = level.lid], t,
                                    LevelLock(level.lid), "W", "order.go:59")]
          [] c.pc = "order.go:59" ->
               [b |-> AddOrderAppend(b, c.arg, c.lid), s |-> Returned(s, t, NoError)]
          [] c.pc = "order.go:77" ->
               IF cancel.err \in CancelEarlyErrors
               THEN [b |-> b, s |-> Returned(s, t, cancel.err)]
               ELSE [b |-> b,
                     s |-> Requests(s, t,
                              LevelLock(b.PriceLevels[
                                  PriceString(b.orders[b.OrderMap[c.arg]].Price)]),
                              "W", "order.go:98")]
          [] c.pc = "order.go:98" ->
               [b |-> cancel, s |-> Returned(s, t, cancel.err)]
          [] c.pc = "match.go:39" ->
               IF p # NoPrice /\ IsMatch(b.orders[c.arg], b.levels[lid].Price)
               THEN [b |-> b,
                     s |-> Requests([s EXCEPT !.calls[t].pos = p,
                                              !.calls[t].lid = lid], t,
                                    LevelLock(lid), "R", "match.go:50")]
               ELSE IF b.remaining > 0
               THEN [b |-> [b EXCEPT
                              !.orders[c.arg].Remaining = b.remaining,
                              !.orders[c.arg].Status = ResidualStatus(b.trades)],
                     s |-> Requests(s, t, BookLock, "W", "order.go:29")]
               ELSE [b |-> b, s |-> Returned(s, t, NoError)]
          [] c.pc = "match.go:50" ->
               [b |-> walk,
                s |-> Requests(
                         Released([s EXCEPT !.calls[t].full = ~walk.cont], t,
                                  LevelLock(c.lid), "R"),
                         t, BookLock, "W", "match.go:136")]
          [] c.pc = "match.go:136" ->
               [b |-> b, s |-> Requests(s, t, LevelLock(c.lid), "W", "match.go:139")]
          [] c.pc = "match.go:139" ->
               [b |-> processCompletedOrders(b, c.lid),
                s |-> IF c.full THEN Returned(s, t, NoError)
                      ELSE [Released(Released(s, t, LevelLock(c.lid), "W"),
                                     t, BookLock, "W")
                              EXCEPT !.calls[t].pc = "match.go:39"]]

\* The caller of package model: one goroutine, one call after the other.
Caller == "T1"

Begins(s, op, arg, remaining, lock, mode, pc) ==
    Requests([s EXCEPT !.calls[Caller] =
                 [Idle EXCEPT !.op = op, !.arg = arg, !.remaining = remaining,
                              !.pos = NoPrice]],
             Caller, lock, mode, pc)

ModelCallAddOrder ==
    /\ Resting(Caller)
    /\ Len(orders) < MaxOrders
    /\ \E side \in {SideBuy, SideSell}, price \in 1..MaxPrice,
          qty \in Quantities :
          /\ orders' = Append(orders,
                              NewOrder(Len(orders) + 1, side, price, qty, FALSE))
          /\ sched' = Begins(sched, "AddOrder", Len(orders) + 1, 0,
                             BookLock, "W", "order.go:29")
    /\ UNCHANGED <<levels, PriceLevels, OrderMap, Bids, Asks, trades, audit,
                   prevOrders, last, prevBook, traded, engine>>

ModelCallCancelOrder ==
    /\ Resting(Caller)
    /\ \E orderID \in 1..MaxOrders :
          sched' = Begins(sched, "CancelOrder", orderID, 0,
                          BookLock, "W", "order.go:77")
    /\ UNCHANGED <<orders, levels, PriceLevels, OrderMap, Bids, Asks, trades,
                   audit, prevOrders, last, prevBook, traded, engine>>

ModelCallMatchOrder ==
    /\ Resting(Caller)
    /\ Len(orders) < MaxOrders
    /\ \E side \in {SideBuy, SideSell}, price \in 1..MaxPrice,
          qty \in Quantities, isMarket \in BOOLEAN :
          /\ orders' = Append(orders,
                              NewOrder(Len(orders) + 1, side, price, qty, isMarket))
          /\ sched' = Begins(sched, "MatchOrder", Len(orders) + 1, qty,
                             BookLock, "R", "match.go:39")
    /\ UNCHANGED <<levels, PriceLevels, OrderMap, Bids, Asks, trades, audit,
                   prevOrders, last, prevBook, traded, engine>>

\* The mutex grants the lock the call is blocked on.
ModelAcquire ==
    /\ sched.calls[Caller].wants # NoLock
    /\ CanAcquire(sched, Caller)
    /\ sched' = Acquired(sched, Caller)
    /\ UNCHANGED <<orders, levels, PriceLevels, OrderMap, Bids, Asks, trades,
                   audit, prevOrders, last, prevBook, traded, engine>>

\* The call runs to its next Lock()/RLock() or to its return.
ModelRun ==
    /\ ~Resting(Caller)
    /\ sched.calls[Caller].wants = NoLock
    /\ LET r == ModelSection(CallBook(sched, Caller), sched, Caller)
       IN  /\ Commit(r.b)
           /\ sched' = IF r.s.calls[Caller].pc = "returned"
                       THEN [r.s EXCEPT !.calls[Caller].trades = r.b.trades]
                       ELSE Keep(r.s, Caller, r.b)
    /\ UNCHANGED <<trades, audit, prevOrders, last, prevBook, traded, engine>>

NextModel ==
    \/ ModelCallAddOrder
    \/ ModelCallCancelOrder
    \/ ModelCallMatchOrder
    \/ ModelAcquire
    \/ ModelRun

SpecModel == Init /\ [][NextModel]_vars

----------------------------------------------------------------------------
\* Package main (src/main/order.go, src/main/match.go) with two goroutines on
\* one book: Submitter calls AddOrder and MatchOrder, Canceller calls
\* CancelOrder.  A call runs in steps from one Lock()/RLock() to the next; a
\* pc names the line of the Lock()/RLock() the call goes on from.

\* One lot: the least quantity.  The orders of the two-goroutine runs are
\* all of one lot.
OneLot == CHOOSE q \in Quantities : \A r \in Quantities : q <= r

Submitter == "T1"

Canceller == "T2"

\* The incoming order's walk over the opposite tree ends: the residual goes
\* to AddOrder, or MatchOrder returns (src/main/match.go:41-49).
MainResidual(b, s, t) ==
    LET c == s.calls[t]
    IN  IF ~c.matchCompleted /\ b.remaining > 0
        THEN [b |-> [b EXCEPT !.orders[c.arg].Remaining = b.remaining,
                              !.orders[c.arg].Status = ResidualStatus(b.trades)],
              s |-> Requests(s, t, BookLock, "W", "order.go:26")]
        ELSE [b |-> b, s |-> Returned(s, t, NoError)]

\* processCompletedOrders returns to traversePriceLevel, and that to the
\* tree's iterator (src/main/match.go:111-113, 121-122).
MainAfterLevel(b, s, t) ==
    LET c == s.calls[t]
        s1 == ReleasedAll(s, t)
    IN  IF c.full
        THEN MainResidual(b, [s1 EXCEPT !.calls[t].matchCompleted = TRUE], t)
        ELSE [b |-> b,
              s |-> [s1 EXCEPT !.calls[t].pc = "match.go:26",
                               !.calls[t].pos = IF b.orders[c.arg].Side = SideBuy
                                                THEN @ + 1 ELSE @ - 1]]

MainSection(b, s, t) ==
    LET c == s.calls[t]
        items == TreeItems(OppositeTree(b, b.orders[c.arg]))
        lid == OppositeTree(b, b.orders[c.arg])[items[c.pos]]
        walk == WalkFifo(b, c.arg, c.lid, 1)
        fifo == b.levels[c.lid].Orders
        found == FindOrCreateLevel(b, c.arg)
        lookup == CancelLookup(b, c.arg)
        removed == CancelRemove(b, c.arg, c.k, c.lid)
    IN  CASE c.pc = "match.go:26" ->
               IF c.pos \in 1..Len(items)
                  /\ IsMatch(b.orders[c.arg], b.levels[lid].Price)
               THEN [b |-> b,
                     s |-> Requests([s EXCEPT !.calls[t].lid = lid], t,
                                    LevelLock(lid), "R", "match.go:69")]
               ELSE MainResidual(b, s, t)
          [] c.pc = "match.go:69" ->
               [b |-> walk,
                s |-> Requests(
                         Released([s EXCEPT !.calls[t].full = ~walk.cont], t,
                                  LevelLock(c.lid), "R"),
                         t, LevelLock(c.lid), "W", "match.go:128")]
          [] c.pc = "match.go:128" ->
               [b |-> ReapLevel(b, c.lid),
                s |-> Requests(
                         Released([s EXCEPT
                                     !.calls[t].completed =
                                         {b.orders[o].OrderID :
                                            o \in {x \in Range(fifo) : Completed(b, x)}},
                                     !.calls[t].lastSeen =
                                         IF fifo = <<>> THEN NoOrder
                                         ELSE fifo[Len(fifo)]],
                                  t, LevelLock(c.lid), "W"),
                         t, BookLock, "W", "match.go:147")]
          [] c.pc = "match.go:147" ->
               [b |-> ReapIds(b, c.completed),
                s |-> Requests(Released(s, t, BookLock, "W"),
                               t, LevelLock(c.lid), "W", "match.go:154")]
          [] c.pc = "match.go:154" ->
               IF fifo = <<>>
               THEN [b |-> b, s |-> Requests(s, t, BookLock, "W", "match.go:158")]
               ELSE MainAfterLevel(b, s, t)
          [] c.pc = "match.go:158" ->
               MainAfterLevel(ReapIndex(b, c.lid, c.lastSeen), s, t)
          [] c.pc = "order.go:26" ->
               IF OrderExists(b, c.arg)
               THEN [b |-> b, s |-> Returned(s, t, IF c.op = "AddOrder"
                                                  THEN "order exists" ELSE NoError)]
               ELSE [b |-> b,
                     s |-> Requests(Released(s, t, BookLock, "W"),
                                    t, BookLock, "W", "order.go:34")]
          [] c.pc = "order.go:34" ->
               [b |-> found.b,
                s |-> Requests(
                         Released([s EXCEPT !.calls[t].lid = found.lid], t,
                                  BookLock, "W"),
                         t, LevelLock(found.lid), "W", "order.go:54")]
          [] c.pc = "order.go:54" ->
               [b |-> AppendToLevel(b, c.arg, c.lid),
                s |-> Requests(s, t, BookLock, "W", "order.go:61")]
          [] c.pc = "order.go:61" ->
               [b |-> RegisterOrder(b, c.arg), s |-> Returned(s, t, NoError)]
          [] c.pc = "order.go:70" ->
               IF lookup.err # NoError
               THEN [b |-> b, s |-> Returned(s, t, lookup.err)]
               ELSE [b |-> b,
                     s |-> Requests([s EXCEPT !.calls[t].k = lookup.o,
                                              !.calls[t].lid = lookup.lid], t,
                                    LevelLock(lookup.lid), "W", "order.go:92")]
          [] c.pc = "order.go:92" ->
               [b |-> removed, s |-> Returned(s, t, removed.err)]

\* A goroutine enters a call.  The mark tells whether the book it starts on
\* is at rest ("quiet"), whether this is the second call of a pair that began
\* on a book at rest ("overlap"), or neither ("stale").
Enters(s, t, op, arg, remaining, pos) ==
    [s EXCEPT !.calls[t] = [Idle EXCEPT !.pc = "called", !.op = op, !.arg = arg,
                                        !.remaining = remaining, !.pos = pos],
              !.mark = IF \A u \in Threads \ {t} : s.calls[u].pc \in {"idle", "returned"}
                       THEN "quiet"
                       ELSE IF @ = "quiet" THEN "overlap" ELSE "stale"]

\* The book and the orders that a call, or a pair of overlapping calls,
\* started from.
Remembers(s, os) ==
    /\ prevBook' = IF s.mark = "quiet" THEN Snapshot(Book) ELSE prevBook
    /\ prevOrders' = IF s.mark = "quiet" THEN os
                     ELSE IF Len(os) > Len(orders)
                     THEN Append(prevOrders, os[Len(os)]) ELSE prevOrders

MainCallAddOrder ==
    /\ Resting(Submitter)
    /\ Len(orders) < MaxOrders
    /\ \E side \in {SideBuy, SideSell}, price \in 1..MaxPrice :
          LET new == Len(orders) + 1
              s == Enters(sched, Submitter, "AddOrder", new, 0, 0)
          IN  /\ orders' = Append(orders, NewOrder(new, side, price, OneLot, FALSE))
              /\ sched' = Requests(s, Submitter, BookLock, "W", "order.go:26")
              /\ Remembers(s, orders')
    /\ UNCHANGED <<levels, PriceLevels, OrderMap, Bids, Asks, trades, audit,
                   last, traded, engine>>

MainCallMatchOrder ==
    /\ Resting(Submitter)
    /\ Len(orders) < MaxOrders
    /\ \E side \in {SideBuy, SideSell}, price \in 1..MaxPrice,
          isMarket \in BOOLEAN :
          LET new == Len(orders) + 1
              s == Enters(sched, Submitter, "MatchOrder", new, OneLot,
                          IF side = SideBuy THEN 1 ELSE Len(TreeItems(Bids)))
          IN  /\ orders' = Append(orders, NewOrder(new, side, price, OneLot, isMarket))
              /\ sched' = [s EXCEPT !.calls[Submitter].pc = "match.go:26"]
              /\ Remembers(s, orders')
    /\ UNCHANGED <<levels, PriceLevels, OrderMap, Bids, Asks, trades, audit,
                   last, traded, engine>>

MainCallCancelOrder ==
    /\ Resting(Canceller)
    /\ sched.cancels < MaxCancels
    /\ \E orderID \in 1..MaxOrders :
          LET s == Enters([sched EXCEPT !.cancels = @ + 1], Canceller, "CancelOrder", orderID, 0, 0)
          IN  /\ sched' = Requests(s, Canceller, BookLock, "W", "order.go:70")
              /\ Remembers(s, orders)
    /\ UNCHANGED <<orders, levels, PriceLevels, OrderMap, Bids, Asks, trades,
                   audit, last, traded, engine>>

\* A mutex grants the lock a call is blocked on.
MainAcquire ==
    \E t \in Threads :
        /\ sched.calls[t].wants # NoLock
        /\ CanAcquire(sched, t)
        /\ sched' = Acquired(sched, t)
        /\ UNCHANGED <<orders, levels, PriceLevels, OrderMap, Bids, Asks, trades,
                       audit, prevOrders, last, prevBook, traded, engine>>

\* A call runs to its next Lock()/RLock() or to its return.
MainRun ==
    \E t \in Threads :
        /\ ~Resting(t)
        /\ sched.calls[t].wants = NoLock
        /\ LET r == MainSection(CallBook(sched, t), sched, t)
           IN  /\ Commit(r.b)
               /\ sched' = IF r.s.calls[t].pc = "returned"
                           THEN [r.s EXCEPT !.calls[t].trades = r.b.trades]
                           ELSE Keep(r.s, t, r.b)
        /\ UNCHANGED <<trades, audit, prevOrders, last, prevBook, traded, engine>>

NextMain ==
    \/ MainCallAddOrder
    \/ MainCallMatchOrder
    \/ MainCallCancelOrder
    \/ MainAcquire
    \/ MainRun

SpecMain == Init /\ [][NextMain]_vars

----------------------------------------------------------------------------
\* Callers that may reuse an order id: the new order object carries any id,
\* that of a live order included.

SubmitMatchOrder ==
    /\ Len(orders) < MaxSubmits
    /\ \E id \in 1..MaxSubmits, side \in {SideBuy, SideSell},
          price \in 1..MaxPrice, qty \in Quantities, isMarket \in BOOLEAN :
          LET new == Len(orders) + 1
              b == [Book EXCEPT !.orders =
                       Append(@, NewOrder(id, side, price, qty, isMarket))]
          IN  Returns(MatchOrder(b, new), "MatchOrder", new, b.orders)

SubmitAddOrder ==
    /\ Len(orders) < MaxSubmits
    /\ \E id \in 1..MaxSubmits, side \in {SideBuy, SideSell},
          price \in 1..MaxPrice, qty \in Quantities :
          LET new == Len(orders) + 1
              b == [Book EXCEPT !.orders =
                       Append(@, NewOrder(id, side, price, qty, FALSE))]
          IN  Returns(AddOrder(b, new), "AddOrder", new, b.orders)

NextAnyId == SubmitMatchOrder \/ SubmitAddOrder \/ DoCancelOrder

SpecAnyId == Init /\ [][NextAnyId]_vars

----------------------------------------------------------------------------
\* Callers that all trade one lot over longer runs: up to MaxIds order
\* objects, each with a fresh id.

LotMatchOrder ==
    /\ Len(orders) < MaxIds
    /\ \E side \in {SideBuy, SideSell}, price \in 1..MaxPrice,
          isMarket \in BOOLEAN :
          LET new == Len(orders) + 1
              b == [Book EXCEPT !.orders =
                       Append(@, NewOrder(new, side, price, OneLot, isMarket))]
          IN  Returns(MatchOrder(b, new), "MatchOrder", new, b.orders)

LotAddOrder ==
    /\ Len(orders) < MaxIds
    /\ \E side \in {SideBuy, SideSell}, price \in 1..MaxPrice :
          LET new == Len(orders) + 1
              b == [Book EXCEPT !.orders =
                       Append(@, NewOrder(new, side, price, OneLot, FALSE))]
          IN  Returns(AddOrder(b, new), "AddOrder", new, b.orders)

LotCancelOrder ==
    \E orderID \in OrderIds :
        Returns(CancelOrder(Book, orderID), "CancelOrder", orderID, orders)

NextLot == LotMatchOrder \/ LotAddOrder \/ LotCancelOrder

SpecLot == Init /\ [][NextLot]_vars

----------------------------------------------------------------------------
\* The matching engine (src/unnamed/part_001) on one symbol.  The book may be
\* filled through AddOrder before Start; after Start the order processor is
\* the only goroutine on the book, so its MatchOrder runs as a whole.  All
\* orders are of one lot.

\* `ch <- v` on a buffered channel, and `<-ch`.
ChanSend(ch, v) == Append(ch, v)

ChanRecv(ch) == [v |-> Head(ch), ch |-> Tail(ch)]

EngineAddOrder ==
    /\ ~engine.started
    /\ LotAddOrder

\* MatchingEngine.Start()
EngineStart ==
    /\ ~engine.started
    /\ engine' = [engine EXCEPT !.started = TRUE, !.Wg = 2,
                                !.orderProcessor = "select",
                                !.tradeProcessor = "select"]
    /\ UNCHANGED <<orders, levels, PriceLevels, OrderMap, Bids, Asks, trades,
                   audit, prevOrders, last, prevBook, traded, sched>>

\* A client's `engine.OrderChan <- order`.
EngineSubmit ==
    /\ Len(orders) < MaxIds
    /\ Len(engine.OrderChan) < ChanCap
    /\ \E side \in {SideBuy, SideSell}, price \in 1..MaxPrice,
          isMarket \in BOOLEAN :
          LET new == Len(orders) + 1
          IN  /\ orders' = Append(orders,
                                  NewOrder(new, side, price, OneLot, isMarket))
              /\ engine' = [engine EXCEPT !.OrderChan = ChanSend(@, new)]
    /\ UNCHANGED <<levels, PriceLevels, OrderMap, Bids, Asks, trades, audit,
                   prevOrders, last, prevBook, traded, sched>>

\* The cases of a worker's select that can proceed.
ReadyCases(e, ch) ==
    (IF ch # <<>> THEN {"receive"} ELSE {})
        \cup (IF e.StopChan = "closed" THEN {"stop"} ELSE {})

Publishes_Always(batch) == TRUE

\* `if len(trades) > 0` (src/unnamed/part_001:75)
Publishes(batch) == Len(batch) > 0

\* orderProcessor's select: an order is taken and matched, or the goroutine
\* returns on StopChan (src/unnamed/part_001:61-80).
OrderProcessorSelect ==
    /\ engine.orderProcessor = "select"
    /\ \E case \in ReadyCases(engine, engine.OrderChan) :
          LET r == ChanRecv(engine.OrderChan)
              b == MatchOrder(Book, r.v)
          IN  IF case = "receive"
              THEN /\ Install(b, "MatchOrder", r.v, orders)
                   /\ engine' = [engine EXCEPT
                                   !.OrderChan = r.ch,
                                   !.taken = Append(@, r.v),
                                   !.computed = Append(@, b.trades),
                                   !.batch = b.trades,
                                   !.orderProcessor =
                                       IF Publishes(b.trades) THEN "send"
                                       ELSE "select"]
                   /\ UNCHANGED sched
              ELSE /\ engine' = [engine EXCEPT !.orderProcessor = "exited",
                                               !.Wg = @ - 1]
                   /\ UNCHANGED <<orders, levels, PriceLevels, OrderMap, Bids,
                                  Asks, trades, audit, prevOrders, last,
                                  prevBook, traded, sched>>

\* `me.TradeChan <- trades` (src/unnamed/part_001:75-77)
OrderProcessorSend ==
    /\ engine.orderProcessor = "send"
    /\ Len(engine.TradeChan) < ChanCap
    /\ engine' = [engine EXCEPT !.TradeChan = ChanSend(@, engine.batch),
                                !.batch = <<>>,
                                !.orderProcessor = "select"]
    /\ UNCHANGED <<orders, levels, PriceLevels, OrderMap, Bids, Asks, trades,
                   audit, prevOrders, last, prevBook, traded, sched>>

\* tradeProcessor's select (src/unnamed/part_001:88-109)
TradeProcessorSelect ==
    /\ engine.tradeProcessor = "select"
    /\ \E case \in ReadyCases(engine, engine.TradeChan) :
          LET r == ChanRecv(engine.TradeChan)
          IN  engine' = IF case = "receive"
                        THEN [engine EXCEPT !.TradeChan = r.ch,
                                            !.consumed = Append(@, r.v)]
                        ELSE [engine EXCEPT !.tradeProcessor = "exited",
                                            !.Wg = @ - 1]
    /\ UNCHANGED <<orders, levels, PriceLevels, OrderMap, Bids, Asks, trades,
                   audit, prevOrders, last, prevBook, traded, sched>>

\* MatchingEngine.Stop() up to its select: StopChan is closed and the
\* goroutine that waits for the workers is started.
StopClose ==
    /\ engine.started
    /\ engine.Stop = "off"
    /\ engine' = [engine EXCEPT !.StopChan = "closed", !.waiter = "waiting",
                                !.Stop = "select",
                                !.stoppedAt = Len(orders)]
    /\ UNCHANGED <<orders, levels, PriceLevels, OrderMap, Bids, Asks, trades,
                   audit, prevOrders, last, prevBook, traded, sched>>

\* `me.Wg.Wait(); close(done)`
StopWaiter ==
    /\ engine.waiter = "waiting"
    /\ engine.Wg = 0
    /\ engine' = [engine EXCEPT !.waiter = "exited", !.done = "closed"]
    /\ UNCHANGED <<orders, levels, PriceLevels, OrderMap, Bids, Asks, trades,
                   audit, prevOrders, last, prevBook, traded, sched>>

StopCases_NoTimer(e) == IF e.done = "closed" THEN {"done"} ELSE {}

\* The cases of Stop's select that can proceed: done once it is closed, the
\* timer once the second is over, which may be at any moment.
StopCases(e) ==
    {"timeout"} \cup (IF e.done = "closed" THEN {"done"} ELSE {})

\* Stop's select, and its return (src/unnamed/part_001:49-54)
StopSelect ==
    /\ engine.Stop = "select"
    /\ \E case \in StopCases(engine) :
          engine' = [engine EXCEPT !.Stop = "returned",
                                   !.diagnostic = IF case = "done" THEN "normal"
                                                  ELSE "timeout"]
    /\ UNCHANGED <<orders, levels, PriceLevels, OrderMap, Bids, Asks, trades,
                   audit, prevOrders, last, prevBook, traded, sched>>

NextEngine ==
    \/ EngineAddOrder
    \/ EngineStart
    \/ EngineSubmit
    \/ OrderProcessorSelect
    \/ OrderProcessorSend
    \/ TradeProcessorSelect
    \/ StopClose
    \/ StopWaiter
    \/ StopSelect

\* The goroutine that called Stop runs again and again, and the timer of
\* time.After fires: Stop's select is taken once a case of it can proceed.
SpecEngine == Init /\ [][NextEngine]_vars /\ WF_vars(StopSelect)

----------------------------------------------------------------------------
\* Vocabulary of the properties.

RECURSIVE SumSeq(_, _)
SumSeq(f(_), n) == IF n = 0 THEN 0 ELSE f(n) + SumSeq(f, n - 1)

\* The level objects the book still refers to.
BookLevels ==
    ({PriceLevels[s] : s \in PriceStrings}
        \cup {Bids[p] : p \in Prices} \cup {Asks[p] : p \in Prices}) \ {NoLevel}

\* The live orders: the order objects of the id map.
LiveOrders == {OrderMap[id] : id \in OrderIds} \ {NoOrder}

LevelsHolding(o) == {lid \in BookLevels : o \in Range(levels[lid].Orders)}

HeldBy(tree, lid) == \E p \in Prices : tree[p] = lid

\* The last call was MatchOrder of order object last.arg.
Matched == last.op = "MatchOrder"

Incoming == orders[last.arg]

TradedQty == SumSeq(LAMBDA i : trades[i].Quantity, Len(trades))

\* (C1) Every live order sits in exactly one level of the book, the level has
\* the order's price, and it is held by the side index of the order's side
\* and not by the other one.
C1_LiveOrderInOwnLevel ==
    \A o \in LiveOrders :
        /\ Cardinality(LevelsHolding(o)) = 1
        /\ \A lid \in LevelsHolding(o) :
              /\ levels[lid].Price = orders[o].Price
              /\ IF orders[o].Side = SideBuy
                 THEN HeldBy(Bids, lid) /\ ~HeldBy(Asks, lid)
                 ELSE HeldBy(Asks, lid) /\ ~HeldBy(Bids, lid)

\* (C2) When MatchOrder returns with the incoming order's remaining > 0, no
\* level of the opposite side index at an acceptable price holds another order
\* that is pending or partially filled with quantity left.
C2_NothingMatchableLeft ==
    (Matched /\ Incoming.Remaining > 0) =>
        \A p \in Prices :
            LET lid == OppositeTree(Book, Incoming)[p]
            IN  (lid # NoLevel /\ IsMatch(Incoming, levels[lid].Price)) =>
                    \A o \in Range(levels[lid].Orders) \ {last.arg} :
                        ~Matchable(orders[o])

\* (C3) The trades of a MatchOrder call are in best-first price order
\* (non-decreasing for a limit buy, non-increasing for a limit sell), and none
\* is emitted while a strictly better opposite level holds a matchable order.
C3_PricesMonotone ==
    (Matched /\ ~Incoming.IsMarket) =>
        \A i, j \in 1..Len(trades) :
            i < j => IF Incoming.Side = SideBuy
                     THEN trades[i].Price <= trades[j].Price
                     ELSE trades[i].Price >= trades[j].Price

C3_NoBetterLevelLeft == \A i \in 1..Len(audit) : ~audit[i].betterLeft

\* (C3) Both halves: monotone trade prices and no better level left behind.
C3_BestFirst == C3_PricesMonotone /\ C3_NoBetterLevelLeft

\* (C4) No trade is emitted against a resting order while an order that
\* entered the same level earlier is still live with quantity left.
C4_FifoWithinLevel == \A i \in 1..Len(audit) : ~audit[i].passedOver

\* (C5) A limit order that MatchOrder inserted with a residual is
\* partially_filled if the call emitted a trade and pending if it emitted none.
C5_ResidualStatus ==
    (/\ Matched
     /\ ~Incoming.IsMarket
     /\ Incoming.Remaining > 0
     /\ last.arg \in LiveOrders) =>
        Incoming.Status = IF Len(trades) > 0 THEN StatusPartiallyFilled
                          ELSE StatusPending

\* (C6) After MatchOrder of a market order the order is in no level, in no
\* side index and not in the id map, and there is no level at price 0.
C6_MarketNeverRests ==
    (Matched /\ Incoming.IsMarket) =>
        /\ \A lid \in 1..Len(levels) : last.arg \notin Range(levels[lid].Orders)
        /\ last.arg \notin LiveOrders
        /\ PriceLevels[PriceString(MarketPrice)] = NoLevel
        /\ Bids[MarketPrice] = NoLevel
        /\ Asks[MarketPrice] = NoLevel

\* (C7) The aggregate TotalQty of every level of the book equals the sum of
\* Remaining over the orders of its FIFO.
C7_AggregateIsSum ==
    \A lid \in BookLevels :
        levels[lid].TotalQty =
            SumSeq(LAMBDA i : orders[levels[lid].Orders[i]].Remaining,
                   Len(levels[lid].Orders))

C10_Conservation ==
    Matched =>
        /\ TradedQty = prevOrders[last.arg].Remaining - Incoming.Remaining
        /\ TradedQty =
              SumSeq(LAMBDA o : prevOrders[o].Remaining - orders[o].Remaining,
                     last.arg - 1)

\* The last call submitted order object last.arg.
Submitted == last.op \in {"MatchOrder", "AddOrder"}

\* (C11) A submission (MatchOrder or AddOrder) of an order whose id was live
\* when the call began returns the duplicate error to its caller, and the id
\* map still maps the id to the order it mapped before.
C11_DuplicateRejected ==
    (Submitted /\ prevBook.OrderMap[Incoming.OrderID] # NoOrder) =>
        /\ last.err = "order exists"
        /\ OrderMap[Incoming.OrderID] = prevBook.OrderMap[Incoming.OrderID]

\* The last call was a CancelOrder that returned no error.
Cancelled == last.op = "CancelOrder" /\ last.err = NoError

\* (C12) A successful CancelOrder(id) takes the order out of its level's
\* FIFO and id index, lowers the level aggregate by the order's remaining,
\* removes the level from the price map and from the side indices exactly
\* when the level became empty, sets the order's status to cancelled, removes
\* the id from the id map, and changes no other order, level or entry.
C12_CancelEffect ==
    Cancelled =>
        LET id == last.arg
            o == prevBook.OrderMap[id]
            before == prevOrders[o]
            key == PriceString(before.Price)
            lid == prevBook.PriceLevels[key]
            was == prevBook.levels[lid]
            now == levels[lid]
            emptied == now.Orders = <<>>
        IN  /\ now.Orders = ListRemove(was.Orders, o)
            /\ now.OrderMap = [was.OrderMap EXCEPT ![id] = NoOrder]
            /\ now.TotalQty = was.TotalQty - before.Remaining
            /\ now.Price = was.Price
            /\ orders = [prevOrders EXCEPT ![o].Status = StatusCancelled]
            /\ OrderMap = [prevBook.OrderMap EXCEPT ![id] = NoOrder]
            /\ \A l \in 1..Len(levels) : l # lid => levels[l] = prevBook.levels[l]
            /\ IF emptied
               THEN /\ PriceLevels = [prevBook.PriceLevels EXCEPT ![key] = NoLevel]
                    /\ ~HeldBy(Bids, lid) /\ ~HeldBy(Asks, lid)
                    /\ \A p \in Prices :
                          /\ prevBook.Bids[p] # lid => Bids[p] = prevBook.Bids[p]
                          /\ prevBook.Asks[p] # lid => Asks[p] = prevBook.Asks[p]
               ELSE /\ PriceLevels = prevBook.PriceLevels
                    /\ Bids = prevBook.Bids
                    /\ Asks = prevBook.Asks

\* The call that follows is CancelOrder of the id of the order that the
\* last call, a MatchOrder of a limit order without trades, submitted.
CancelsSubmitted ==
    /\ Matched
    /\ ~Incoming.IsMarket
    /\ trades = <<>>
    /\ last'.op = "CancelOrder"
    /\ last'.arg = Incoming.OrderID

\* The book after the step is the book as it was before the last call.
BookRestored ==
    /\ PriceLevels' = prevBook.PriceLevels
    /\ OrderMap' = prevBook.OrderMap
    /\ Bids' = prevBook.Bids
    /\ Asks' = prevBook.Asks
    /\ \A l \in 1..Len(prevBook.levels) : levels'[l] = prevBook.levels[l]

\* (C13) MatchOrder of a limit order that produces no trades, followed at
\* once by CancelOrder of its id, leaves both side indices, the price map,
\* every level's FIFO and aggregate and the id map as they were before the
\* MatchOrder.
C13_RoundTrip == [][CancelsSubmitted => BookRestored]_vars

\* CancelOrder of an id that the id map held succeeds; CancelOrder of an id
\* that the id map did not hold returns the not-found error.
CancelResult ==
    last.op = "CancelOrder" =>
        last.err = IF prevBook.OrderMap[last.arg] # NoOrder THEN NoError
                   ELSE "order not found"

\* The step is a CancelOrder of the id that the last call cancelled.
CancelsAgain == Cancelled /\ last'.op = "CancelOrder" /\ last'.arg = last.arg

\* (C14) CancelOrder of a live id succeeds and a second CancelOrder of the
\* same id right after it returns not-found; CancelOrder of an id that is
\* not in the id map returns not-found.
C14_CancelTwice ==
    /\ []CancelResult
    /\ [][CancelsAgain => last'.err = "order not found"]_vars

\* The price map refers to level object lid.
Mapped(lid) == \E k \in PriceStrings : PriceLevels[k] = lid

\* (C19) Between operations a level object is in a side index, and in the
\* price map, exactly when its FIFO is not empty; it is never in both side
\* indices, and it is indexed at its own price.  (A side index is keyed by
\* price, so it holds at most one level per price.)
C19_LevelIndexedIffNonEmpty ==
    \A lid \in 1..Len(levels) :
        /\ (HeldBy(Bids, lid) \/ HeldBy(Asks, lid)) <=> levels[lid].Orders # <<>>
        /\ Mapped(lid) <=> levels[lid].Orders # <<>>
        /\ ~(HeldBy(Bids, lid) /\ HeldBy(Asks, lid))
        /\ \A p \in Prices :
              (Bids[p] = lid \/ Asks[p] = lid) => levels[lid].Price = p

\* (C20) Between operations every order has 0 <= Remaining <= Quantity, has
\* taken part in trades of at most its Quantity in total, and has status
\* filled exactly when its Remaining is 0.
C20_RemainingAndFilled ==
    \A o \in 1..Len(orders) :
        /\ 0 <= orders[o].Remaining
        /\ orders[o].Remaining <= orders[o].Quantity
        /\ traded[o] <= orders[o].Quantity
        /\ orders[o].Status = StatusFilled <=> orders[o].Remaining = 0

\* The call of t is blocked on a mutex that it holds itself.
SelfBlocked(t) ==
    /\ sched.calls[t].wants # NoLock
    /\ \E h \in sched.held : h.t = t /\ h.lock = sched.calls[t].wants

\* (C15) A MatchOrder call that runs alone on its book is never blocked on
\* the book lock or on a level lock that the call itself holds, neither when
\* it reaps a level through processCompletedOrders nor when it inserts the
\* residual through AddOrder.
C15_MatchOrderNotSelfBlocked ==
    \A t \in Threads : sched.calls[t].op = "MatchOrder" => ~SelfBlocked(t)

\* The book at rest that the last call, or pair of overlapping calls, of the
\* two goroutines began on.
BookBefore ==
    [NewOrderBook EXCEPT
        !.orders = prevOrders, !.levels = prevBook.levels,
        !.PriceLevels = prevBook.PriceLevels, !.OrderMap = prevBook.OrderMap,
        !.Bids = prevBook.Bids, !.Asks = prevBook.Asks]

\* What a MatchOrder and a CancelOrder leave behind: the book, the orders,
\* CancelOrder's result and MatchOrder's trades.
Outcome(b, err, emitted) ==
    [book |-> Snapshot(b), orders |-> b.orders, err |-> err, trades |-> emitted]

MatchThenCancel(new, orderID) ==
    LET m == MatchOrder(BookBefore, new)
        c == CancelOrder(m, orderID)
    IN  Outcome(c, c.err, m.trades)

CancelThenMatch(new, orderID) ==
    LET c == CancelOrder(BookBefore, orderID)
        m == MatchOrder(c, new)
    IN  Outcome(m, c.err, m.trades)

\* A MatchOrder and a CancelOrder overlapped and both have returned.
Overlapped ==
    /\ sched.mark = "overlap"
    /\ sched.calls[Submitter].pc = "returned"
    /\ sched.calls[Canceller].pc = "returned"
    /\ sched.calls[Submitter].op = "MatchOrder"

\* (C16) A CancelOrder that overlaps a MatchOrder on the same book leaves the
\* result and the effect of one of the two serial orders: CancelOrder's error,
\* MatchOrder's trades, the book and the orders are those of MatchOrder then
\* CancelOrder, or of CancelOrder then MatchOrder, from the book the pair
\* began on.  (Then CancelOrder does not return "order cannot be cancelled"
\* for an order that the overlapping MatchOrder filled.)
C16_CancelSerialized ==
    Overlapped =>
        Outcome(Book, sched.calls[Canceller].err, sched.calls[Submitter].trades)
            \in {MatchThenCancel(sched.calls[Submitter].arg,
                                 sched.calls[Canceller].arg),
                 CancelThenMatch(sched.calls[Submitter].arg,
                                 sched.calls[Canceller].arg)}

\* The trade batches on their way through the engine, oldest first: those
\* the trade processor has received, those in TradeChan, and the one the
\* order processor is about to send.
BatchFlow ==
    engine.consumed \o engine.TradeChan
        \o (IF engine.orderProcessor = "send" THEN <<engine.batch>> ELSE <<>>)

NonEmpty(batch) == batch # <<>>

C18_StopReturns ==
    /\ (engine.Stop = "select") ~> (engine.Stop = "returned")
    /\ [](engine.Stop = "returned" =>
            /\ engine.diagnostic \in {"normal", "timeout"}
            /\ (engine.Wg > 0 => engine.diagnostic = "timeout"))

\* (C18) witness: Stop has returned with the timeout diagnostic while the
\* order processor is blocked for ever on the full trade channel, the trade
\* processor having exited.
C18_Witness ==
    /\ engine.Stop = "returned"
    /\ engine.diagnostic = "timeout"
    /\ engine.orderProcessor = "send"
    /\ Len(engine.TradeChan) = ChanCap
    /\ engine.tradeProcessor = "exited"

Terminal(status) == status \in {StatusFilled, StatusCancelled}

StatusMoves(from, to) ==
    \/ from = to
    \/ from = StatusPending
       /\ to \in {StatusPartiallyFilled, StatusFilled, StatusCancelled}
    \/ from = StatusPartiallyFilled /\ to \in {StatusFilled, StatusCancelled}

OrderMoves ==
    \A o \in 1..Len(orders) :
        /\ StatusMoves(orders[o].Status, orders'[o].Status)
        /\ Terminal(orders[o].Status) =>
               orders'[o].Remaining = orders[o].Remaining

\* (C21) From one call of AddOrder, MatchOrder or CancelOrder to the next, the
\* status of an order stays or moves from pending to partially filled, filled
\* or cancelled, or from partially filled to filled or cancelled; the status
\* and the remaining quantity of a filled or cancelled order stay.
C21_StatusDag == [][OrderMoves]_vars

\* (C21) witness: a partially filled order has been cancelled, another order
\* is filled, and the call before was a CancelOrder.
C21_Witness ==
    /\ last.op = "CancelOrder"
    /\ last.err = NoError
    /\ \E o \in 1..Len(orders) :
          /\ orders[o].OrderID = last.arg
          /\ prevOrders[o].Status = StatusPartiallyFilled
          /\ orders[o].Status = StatusCancelled
    /\ \E o \in 1..Len(orders) : orders[o].Status = StatusFilled

LevelLocksOf(t) == {h \in sched.held : h.t = t /\ h.lock.kind = "level"}

\* (C22) A goroutine in a book operation does not ask for the book lock
\* while it holds a level lock, does not hold or ask for two level locks at
\* once, and does not ask for the write lock of a mutex whose read lock it
\* holds.
C22_LockDiscipline ==
    \A t \in Threads :
        LET c == sched.calls[t]
        IN  /\ c.wants = BookLock => LevelLocksOf(t) = {}
            /\ Cardinality({h.lock : h \in LevelLocksOf(t)}
                             \cup (IF c.wants.kind = "level"
                                   THEN {c.wants} ELSE {})) <= 1
            /\ c.mode = "W" =>
                   [t |-> t, lock |-> c.wants, mode |-> "R"] \notin sched.held

\* The call of t waits for a lock that the other goroutine holds.
WaitsFor(t, u) ==
    /\ sched.calls[t].wants # NoLock
    /\ \E h \in sched.held : h.t = u /\ h.lock = sched.calls[t].wants

\* (C23) A MatchOrder and a CancelOrder that run at once on one book never
\* reach a state from which neither can return: they never wait for each
\* other's locks.
C23_NoDeadlock ==
    sched.calls[Submitter].op = "MatchOrder" =>
        ~(WaitsFor(Submitter, Canceller) /\ WaitsFor(Canceller, Submitter))

\* The order is in the FIFO of a level that the price map and a side index
\* hold at the order's price.
InBook(o) ==
    \E lid \in 1..Len(levels) :
        /\ o \in Range(levels[lid].Orders)
        /\ PriceLevels[PriceString(orders[o].Price)] = lid
        /\ Bids[orders[o].Price] = lid \/ Asks[orders[o].Price] = lid

\* An AddOrder, direct or through MatchOrder, and a CancelOrder overlapped
\* and both have returned.
AddOverlappedCancel ==
    /\ sched.mark = "overlap"
    /\ sched.calls[Submitter].pc = "returned"
    /\ sched.calls[Canceller].pc = "returned"

\* (C24) Once an AddOrder, direct or through MatchOrder, and a CancelOrder
\* that overlapped on a book have both returned, every order of the id map
\* is in a level that the price map and a side index hold.
C24_AddedOrderInBook ==
    AddOverlappedCancel => \A o \in LiveOrders : InBook(o)

\* (C25) Every trade of the last MatchOrder call pairs orders of opposite
\* sides: the maker of a trade for an incoming buy order is a sell order,
\* the maker for an incoming sell order is a buy order.
C25_OppositeSides ==
    \A i \in 1..Len(audit) : audit[i].makerSide # audit[i].takerSide

\* The orders of the inbound channel that were sent before Stop was called.
SentBeforeStop == {o \in Range(engine.OrderChan) : o <= engine.stoppedAt}

\* (C26) When the order processor has exited, no order that was sent on the
\* inbound channel before Stop was called is left unmatched in it; when both
\* workers have exited, no trade batch is left in the outbound channel.
C26_WorkersDrain ==
    /\ engine.orderProcessor = "exited" => SentBeforeStop = {}
    /\ (engine.orderProcessor = "exited" /\ engine.tradeProcessor = "exited") =>
           engine.TradeChan = <<>>
====
